---- MODULE Spec2Model ----
(***************************************************************************)
(* A model of script.js: the TodoApp task list (tasks, currentFilter,      *)
(* editingId), its localStorage snapshot and its rendered view.            *)
(*                                                                         *)
(* JavaScript strings are strings, read one character at a time with      *)
(* SubSeq.  A value that can be a number, a string, a boolean, null or     *)
(* undefined is a record with the same four fields whatever its type, so   *)
(* that any two values can be compared.                                    *)
(***************************************************************************)
EXTENDS Integers, Sequences, FiniteSets, TLC

\* ------------------------------------------------------------------ bounds
MaxTasks == 2       \* longest task list explored
MaxClock == 2       \* last millisecond the clock reaches

\* ------------------------------------------------------- program constants
MaxTaskLength == 100

\* ------------------------------------------------------ JavaScript values
Num(n) == [type |-> "number", num |-> n, str |-> "", bool |-> FALSE]
Str(s) == [type |-> "string", num |-> 0, str |-> s, bool |-> FALSE]
Bool(b) == [type |-> "boolean", num |-> 0, str |-> "", bool |-> b]
undefined == [type |-> "undefined", num |-> 0, str |-> "", bool |-> FALSE]
null == [type |-> "null", num |-> 0, str |-> "", bool |-> FALSE]

CharAt(s, i) == SubSeq(s, i, i)

RECURSIVE Repeat(_, _)
Repeat(c, n) == IF n = 0 THEN "" ELSE c \o Repeat(c, n - 1)

\* String.prototype.trim: strips white space from both ends, nothing inside.
WhiteSpace == {" ", "\t"}

\* The index of the first and of the last character that is not white space
\* (Len(s) + 1 and 0 when there is none).
FirstInk(s) ==
    IF \E i \in 1..Len(s) : CharAt(s, i) \notin WhiteSpace
    THEN CHOOSE i \in 1..Len(s) :
            /\ CharAt(s, i) \notin WhiteSpace
            /\ \A j \in 1..(i - 1) : CharAt(s, j) \in WhiteSpace
    ELSE Len(s) + 1
LastInk(s) ==
    IF \E i \in 1..Len(s) : CharAt(s, i) \notin WhiteSpace
    THEN CHOOSE i \in 1..Len(s) :
            /\ CharAt(s, i) \notin WhiteSpace
            /\ \A j \in (i + 1)..Len(s) : CharAt(s, j) \in WhiteSpace
    ELSE 0

\* input.value read without trim().
trimForgotten(s) == s

trim(s) == SubSeq(s, FirstInk(s), LastInk(s))

\* ------------------------------------------------------------------- Date
\* A Date is its time value in milliseconds, or invalid (time value NaN).
Date(ms) == [valid |-> TRUE, time |-> ms]
InvalidDate == [valid |-> FALSE, time |-> 0]

Digits == <<"0", "1", "2", "3", "4", "5", "6", "7", "8", "9">>
DigitOf(i) == Digits[i + 1]
IsDigit(c) == \E i \in 1..10 : Digits[i] = c
DigitValue(c) == (CHOOSE i \in 1..10 : Digits[i] = c) - 1

\* Date.prototype.toISOString for a time within the first minute after the
\* epoch, "1970-01-01T00:00:SS.mmmZ": the date, hour and minute are fixed,
\* the seconds and the milliseconds are printed digit by digit.
IsoMinute == "1970-01-01T00:00:"
toISOString(ms) ==
    IsoMinute
    \o DigitOf((ms \div 10000) % 10) \o DigitOf((ms \div 1000) % 10) \o "."
    \o DigitOf((ms \div 100) % 10) \o DigitOf((ms \div 10) % 10)
    \o DigitOf(ms % 10) \o "Z"

\* Date.prototype.toJSON: the ISO string, or null for an invalid date.
toJSON(d) == IF d.valid THEN Str(toISOString(d.time)) ELSE null

\* Date.parse of a string: the time value of an ISO string, NaN otherwise.
IsIsoString(s) ==
    /\ Len(s) = Len(IsoMinute) + 7
    /\ SubSeq(s, 1, Len(IsoMinute)) = IsoMinute
    /\ CharAt(s, Len(IsoMinute) + 3) = "."
    /\ CharAt(s, Len(IsoMinute) + 7) = "Z"
    /\ \A i \in {1, 2, 4, 5, 6} : IsDigit(CharAt(s, Len(IsoMinute) + i))

parseISO(s) ==
    LET d(i) == DigitValue(CharAt(s, Len(IsoMinute) + i)) IN
    d(1) * 10000 + d(2) * 1000 + d(4) * 100 + d(5) * 10 + d(6)

\* new Date(value) for a value read from parsed JSON.
newDate(v) ==
    CASE v.type = "number" -> Date(v.num)
      [] v.type = "string" -> IF IsIsoString(v.str) THEN Date(parseISO(v.str))
                              ELSE InvalidDate
      [] v.type = "null" -> Date(0)
      [] v.type = "boolean" -> Date(IF v.bool THEN 1 ELSE 0)
      [] OTHER -> InvalidDate

\* ------------------------------------------------------------------- Task
\* new Task(id, text, completed = false, createdAt = new Date())
Task(id, text, completed, createdAt) ==
    [id |-> id, text |-> text, completed |-> completed, createdAt |-> createdAt]

\* ----------------------------------------------------------- localStorage
\* The value under the key 'tasks'.  A stored string is modelled by what
\* JSON.parse makes of it: kind is "absent" (getItem returns null), "empty"
\* (the string ""), "unparseable" (JSON.parse throws), "nonArray" (JSON that
\* is not an array) or "array"; items are the elements of an array.  An
\* element is null, a number, or an object whose missing properties read as
\* undefined.
Stored(kind, items) == [kind |-> kind, items |-> items]
Absent == Stored("absent", <<>>)

JsonObject(id, text, completed, createdAt) ==
    [kind |-> "object", id |-> id, text |-> text, completed |-> completed,
     createdAt |-> createdAt]
JsonNull == [kind |-> "null", id |-> undefined, text |-> undefined,
             completed |-> undefined, createdAt |-> undefined]
JsonNumber == [kind |-> "number", id |-> undefined, text |-> undefined,
               completed |-> undefined, createdAt |-> undefined]

\* JSON.stringify(this.tasks.map(t => ({id, text, completed, createdAt}))):
\* a Date is written through toJSON, an undefined property is left out.
JSONstringify(ts) ==
    Stored("array",
           [i \in 1..Len(ts) |->
               JsonObject(ts[i].id, ts[i].text, Bool(ts[i].completed),
                          toJSON(ts[i].createdAt))])

\* t => new Task(t.id, t.text): completed and createdAt not passed on.
TaskFromJsonIdTextOnly(e) == Task(e.id, e.text, FALSE, newDate(e.createdAt))

\* t => new Task(t.id, t.text, t.completed, new Date(t.createdAt)); an
\* undefined completed takes the constructor's default, false.
TaskFromJson(e) ==
    Task(e.id, e.text,
         IF e.completed.type = "undefined" THEN FALSE ELSE e.completed.bool,
         newDate(e.createdAt))

\* Whether the try block of loadTasks throws: JSON.parse on a string that is
\* not JSON, data.map on a value that is no array, t.id on a null element.
LoadThrows(stored) ==
    \/ stored.kind \in {"unparseable", "nonArray"}
    \/ /\ stored.kind = "array"
       /\ \E i \in 1..Len(stored.items) : stored.items[i].kind = "null"

\* loadTasks on this.tasks = cur: the tasks afterwards, whether
\* console.error was called and whether an exception left the method (the
\* catch block takes every exception of the try block).  A falsy stored
\* value (null, "") is skipped.
loadTasks(stored, cur) ==
    IF stored.kind \in {"absent", "empty"}
    THEN [tasks |-> cur, logged |-> FALSE, escaped |-> FALSE]
    ELSE IF LoadThrows(stored)
    THEN [tasks |-> <<>>, logged |-> TRUE, escaped |-> FALSE]
    ELSE [tasks |-> [i \in 1..Len(stored.items) |-> TaskFromJson(stored.items[i])],
          logged |-> FALSE, escaped |-> FALSE]

\* ------------------------------------------------------------------- view
IsActive(t) == ~t.completed
IsCompleted(t) == t.completed

\* getFilteredTasks with the two filter callbacks exchanged.
getFilteredTasksExchanged(ts, filter) ==
    CASE filter = "active" -> SelectSeq(ts, IsCompleted)
      [] filter = "completed" -> SelectSeq(ts, IsActive)
      [] OTHER -> ts

\* getFilteredTasks whose switch has no default case: a filter that is
\* neither 'active' nor 'completed' nor 'all' selects nothing.
getFilteredTasksNoDefault(ts, filter) ==
    CASE filter = "active" -> SelectSeq(ts, IsActive)
      [] filter = "completed" -> SelectSeq(ts, IsCompleted)
      [] filter = "all" -> ts
      [] OTHER -> <<>>

\* getFilteredTasks: Array.prototype.filter keeps the order of the array.
getFilteredTasks(ts, filter) ==
    CASE filter = "active" -> SelectSeq(ts, IsActive)
      [] filter = "completed" -> SelectSeq(ts, IsCompleted)
      [] OTHER -> ts

\* updateStats: the three counters written to the page.
updateStats(ts) ==
    [total |-> Len(ts),
     completed |-> Len(SelectSeq(ts, IsCompleted)),
     active |-> Len(ts) - Len(SelectSeq(ts, IsCompleted))]

\* render: the list items written to #taskList, whether #emptyState has the
\* class 'show', and the counters.
render(ts, filter) ==
    [list |-> getFilteredTasks(ts, filter),
     emptyState |-> Len(getFilteredTasks(ts, filter)) = 0,
     stats |-> updateStats(ts)]

\* ------------------------------------------------------------------ state
VARIABLES
    tasks,          \* this.tasks
    currentFilter,  \* this.currentFilter
    editingId,      \* this.editingId, null when no task is edited
    modalShown,     \* #editModal has the class 'show'
    storage,        \* localStorage under the key 'tasks'
    view,           \* what render last wrote to the page
    storageFull,    \* localStorage.setItem throws (the quota is exceeded)
    clock,          \* the last time read from the system clock
    alertMsg,       \* the message of the alert the last event raised, or ""
    logged,         \* the last event called console.error
    uncaught,       \* the last event ended with an uncaught exception
    event           \* the last event: its handler and arguments

vars == <<tasks, currentFilter, editingId, modalShown, storage, storageFull,
          view, clock,
          alertMsg, logged, uncaught, event>>

AlertEmpty == "Please enter a task!"
AlertTooLong == "Task is too long! Maximum 100 characters."
AlertEditEmpty == "Task cannot be empty!"

\* ----------------------------------------------------------------- inputs
LongestText == Repeat("a", MaxTaskLength)
InputTexts ==
    { "", " ", "\t ", " a b\t", LongestText, " " \o LongestText \o "\t",
      LongestText \o "a" }

\* value.trim() for every input, worked out once.
Trimmed == [value \in InputTexts |-> trim(value)]

Filters == {"all", "active", "completed", "archived"}

\* The ids a handler is called with: those the clock can have given, whether
\* a task has them or not.
IdArgs == {Num(n) : n \in 1..MaxClock}

\* The last event: its handler, what confirm answered (FALSE when it was
\* not asked) and whether the id it was called with was in the collection.
Event(op, answer, found) == [op |-> op, answer |-> answer, found |-> found]

\* this.tasks.find(t => t.id === id): the index of the first match, 0 if none.
HasId(ts, id) == \E i \in 1..Len(ts) : ts[i].id = id
find(ts, id) ==
    IF HasId(ts, id)
    THEN CHOOSE i \in 1..Len(ts) :
            ts[i].id = id /\ \A j \in 1..(i - 1) : ts[j].id # id
    ELSE 0

\* saveTasks that writes nothing.
saveTasksSkipped(ts, old, writeOk) == old

\* saveTasks: localStorage.setItem, which throws when the write fails
\* (quota exceeded); the value under the key is then the old one.
saveTasks(ts, old, writeOk) == IF writeOk THEN JSONstringify(ts) ELSE old

\* The end of a mutating handler, this.saveTasks(); this.render(): when
\* setItem throws, the exception leaves the handler and render is not reached.
SaveAndRender(ts) ==
    /\ storage' = saveTasks(ts, storage, ~storageFull)
    /\ view' = IF storageFull THEN view ELSE render(ts, currentFilter)
    /\ uncaught' = storageFull
    /\ UNCHANGED storageFull

\* --------------------------------------------------------------- handlers
\* text.length >= 100
TooLongFromLimit(text) == Len(text) >= MaxTaskLength

\* text.length > 100
TooLong(text) == Len(text) > MaxTaskLength

\* this.tasks.unshift(task)
Unshifted(ts, task) == <<task>> \o ts

\* this.tasks.push(task)
Pushed(ts, task) == Append(ts, task)

\* addTask with #taskInput holding value; now is the millisecond in which
\* the handler runs, read by Date.now() and by the new Date() of the Task
\* constructor.
addTask(value, now) ==
    LET text == Trimmed[value] IN
    /\ logged' = FALSE
    /\ event' = Event("addTask", FALSE, FALSE)
    /\ IF text = ""
       THEN /\ alertMsg' = AlertEmpty
            /\ uncaught' = FALSE
            /\ UNCHANGED <<tasks, currentFilter, editingId, modalShown,
                           storage, storageFull, view, clock>>
       ELSE IF TooLong(text)
       THEN /\ alertMsg' = AlertTooLong
            /\ uncaught' = FALSE
            /\ UNCHANGED <<tasks, currentFilter, editingId, modalShown,
                           storage, storageFull, view, clock>>
       ELSE /\ Len(tasks) < MaxTasks
            /\ now >= clock
            /\ clock' = now
            /\ tasks' = Pushed(tasks, Task(Num(now), Str(text), FALSE, Date(now)))
            /\ alertMsg' = ""
            /\ SaveAndRender(tasks')
            /\ UNCHANGED <<currentFilter, editingId, modalShown>>

\* this.tasks.filter(task => task.id === id)
OnlyId(ts, id) == LET Same(t) == t.id = id IN SelectSeq(ts, Same)

\* this.tasks.filter(task => task.id !== id)
WithoutId(ts, id) == LET Other(t) == t.id # id IN SelectSeq(ts, Other)

\* deleteTask(id) that does not ask: the filter runs whatever confirm
\* would have returned.
deleteTaskUnasked(id, answer) ==
    /\ event' = Event("deleteTask", answer, HasId(tasks, id))
    /\ alertMsg' = "" /\ logged' = FALSE
    /\ tasks' = WithoutId(tasks, id)
    /\ SaveAndRender(tasks')
    /\ UNCHANGED <<currentFilter, editingId, modalShown, clock>>

\* deleteTask(id); answer is what confirm returns.
deleteTask(id, answer) ==
    /\ event' = Event("deleteTask", answer, HasId(tasks, id))
    /\ alertMsg' = "" /\ logged' = FALSE
    /\ IF answer
       THEN /\ tasks' = WithoutId(tasks, id)
            /\ SaveAndRender(tasks')
            /\ UNCHANGED <<currentFilter, editingId, modalShown, clock>>
       ELSE /\ uncaught' = FALSE
            /\ UNCHANGED <<tasks, currentFilter, editingId, modalShown,
                           storage, storageFull, view, clock>>

\* task.completed = true on the task find returns.
Checked(ts, id) ==
    IF HasId(ts, id)
    THEN [ts EXCEPT ![find(ts, id)].completed = TRUE]
    ELSE ts

\* task.completed = !task.completed on the task find returns.
Toggled(ts, id) ==
    IF HasId(ts, id)
    THEN [ts EXCEPT ![find(ts, id)].completed = ~@]
    ELSE ts

toggleTask(id) ==
    /\ event' = Event("toggleTask", FALSE, HasId(tasks, id))
    /\ alertMsg' = "" /\ logged' = FALSE
    /\ IF HasId(tasks, id)
       THEN /\ tasks' = Toggled(tasks, id)
            /\ SaveAndRender(tasks')
            /\ UNCHANGED <<currentFilter, editingId, modalShown, clock>>
       ELSE /\ uncaught' = FALSE
            /\ UNCHANGED <<tasks, currentFilter, editingId, modalShown,
                           storage, storageFull, view, clock>>

\* editTask(id) that shows the modal without looking the task up.
editTaskUnchecked(id) ==
    /\ event' = Event("editTask", FALSE, HasId(tasks, id))
    /\ alertMsg' = "" /\ logged' = FALSE /\ uncaught' = FALSE
    /\ editingId' = id
    /\ modalShown' = TRUE
    /\ UNCHANGED <<tasks, currentFilter, storage, storageFull, view, clock>>

\* editTask(id) and, for a task that is found, showEditModal(task).
editTask(id) ==
    /\ event' = Event("editTask", FALSE, HasId(tasks, id))
    /\ alertMsg' = "" /\ logged' = FALSE /\ uncaught' = FALSE
    /\ IF HasId(tasks, id)
       THEN /\ editingId' = tasks[find(tasks, id)].id
            /\ modalShown' = TRUE
       ELSE UNCHANGED <<editingId, modalShown>>
    /\ UNCHANGED <<tasks, currentFilter, storage, storageFull, view, clock>>

\* task.text = text on the task find returns.
WithText(ts, id, text) ==
    IF HasId(ts, id)
    THEN [ts EXCEPT ![find(ts, id)].text = Str(text)]
    ELSE ts

\* The modal's Save button or Enter in #editInput: saveEdit(task.id,
\* input.value), task being the one the modal was last shown for.
saveEdit(newText) ==
    LET id == editingId
        text == Trimmed[newText] IN
    /\ modalShown
    /\ event' = Event("saveEdit", FALSE, HasId(tasks, id))
    /\ logged' = FALSE
    /\ IF text = ""
       THEN /\ alertMsg' = AlertEditEmpty
            /\ uncaught' = FALSE
            /\ UNCHANGED <<tasks, currentFilter, editingId, modalShown,
                           storage, storageFull, view, clock>>
       ELSE /\ alertMsg' = ""
            /\ IF HasId(tasks, id)
               THEN /\ tasks' = WithText(tasks, id, text)
                    /\ SaveAndRender(tasks')
                    /\ editingId' = IF storageFull THEN editingId ELSE null
                    /\ modalShown' = IF storageFull THEN modalShown ELSE FALSE
                    /\ UNCHANGED <<currentFilter, clock>>
               ELSE /\ uncaught' = FALSE
                    /\ UNCHANGED <<tasks, currentFilter, editingId, modalShown,
                                   storage, storageFull, view, clock>>

\* The modal's Cancel button or a click on the modal's backdrop.
closeEditModal ==
    /\ modalShown
    /\ event' = Event("closeEditModal", FALSE, FALSE)
    /\ alertMsg' = "" /\ logged' = FALSE /\ uncaught' = FALSE
    /\ modalShown' = FALSE
    /\ editingId' = null
    /\ UNCHANGED <<tasks, currentFilter, storage, storageFull, view, clock>>

clearCompleted(answer) ==
    /\ event' = Event("clearCompleted", answer, FALSE)
    /\ alertMsg' = "" /\ logged' = FALSE
    /\ IF answer
       THEN /\ tasks' = SelectSeq(tasks, IsActive)
            /\ SaveAndRender(tasks')
            /\ UNCHANGED <<currentFilter, editingId, modalShown, clock>>
       ELSE /\ uncaught' = FALSE
            /\ UNCHANGED <<tasks, currentFilter, editingId, modalShown,
                           storage, storageFull, view, clock>>

clearAll(answer) ==
    /\ event' = Event("clearAll", answer, FALSE)
    /\ alertMsg' = "" /\ logged' = FALSE
    /\ IF answer
       THEN /\ tasks' = <<>>
            /\ SaveAndRender(tasks')
            /\ UNCHANGED <<currentFilter, editingId, modalShown, clock>>
       ELSE /\ uncaught' = FALSE
            /\ UNCHANGED <<tasks, currentFilter, editingId, modalShown,
                           storage, storageFull, view, clock>>

setFilter(filter) ==
    /\ event' = Event("setFilter", FALSE, FALSE)
    /\ alertMsg' = "" /\ logged' = FALSE /\ uncaught' = FALSE
    /\ currentFilter' = filter
    /\ view' = render(tasks, filter)
    /\ UNCHANGED <<tasks, editingId, modalShown, storage, storageFull, clock>>

\* The page as it is before render has run.
NotRendered ==
    [list |-> <<>>, emptyState |-> FALSE,
     stats |-> [total |-> 0, completed |-> 0, active |-> 0]]

\* new TodoApp() on a page load: the constructor's assignments, then init:
\* loadTasks, setupEventListeners, render.  The page is new, so the modal
\* is not shown.
Construct(stored) ==
    LET loaded == loadTasks(stored, <<>>) IN
    /\ tasks' = loaded.tasks
    /\ currentFilter' = "all"
    /\ editingId' = null
    /\ modalShown' = FALSE
    /\ view' = IF loaded.escaped THEN NotRendered ELSE render(loaded.tasks, "all")
    /\ alertMsg' = ""
    /\ logged' = loaded.logged
    /\ uncaught' = loaded.escaped

\* The user reloads the page: a new application on the stored snapshot.
reload ==
    /\ event' = Event("reload", FALSE, FALSE)
    /\ Construct(storage)
    /\ UNCHANGED <<storage, storageFull, clock>>

\* ------------------------------------------------------------ specification
\* The application constructed on the stored value s.
InitOn(s) ==
    LET loaded == loadTasks(s, <<>>) IN
    /\ storage = s
    /\ storageFull = FALSE
    /\ clock = 1
    /\ tasks = loaded.tasks
    /\ currentFilter = "all"
    /\ editingId = null
    /\ modalShown = FALSE
    /\ view = (IF loaded.escaped THEN NotRendered ELSE render(loaded.tasks, "all"))
    /\ alertMsg = ""
    /\ logged = loaded.logged
    /\ uncaught = loaded.escaped
    /\ event = Event("init", FALSE, FALSE)

\* A first visit: nothing is stored under the key.
Init == InitOn(Absent)

Next ==
    \/ \E value \in InputTexts, now \in 1..MaxClock : addTask(value, now)
    \/ \E id \in IdArgs, answer \in BOOLEAN : deleteTask(id, answer)
    \/ \E id \in IdArgs : toggleTask(id)
    \/ \E id \in IdArgs : editTask(id)
    \/ \E newText \in InputTexts : saveEdit(newText)
    \/ closeEditModal
    \/ \E answer \in BOOLEAN : clearCompleted(answer)
    \/ \E answer \in BOOLEAN : clearAll(answer)
    \/ \E filter \in Filters : setFilter(filter)
    \/ reload

Spec == Init /\ [][Next]_vars

\* ------------------------------------------- loading what was left stored
\* What can be found under the key when the page loads: nothing, the empty
\* string, a string that is not JSON, JSON that is not an array, and arrays
\* of up to MaxTasks elements, each null, a number, the object {}, or a task
\* record as saveTasks writes it or with a number for createdAt.
StoredElements ==
    { JsonNull, JsonNumber,
      JsonObject(undefined, undefined, undefined, undefined),
      JsonObject(Num(1), Str("a b"), Bool(TRUE), Str(toISOString(1))),
      JsonObject(Num(2), Str("a b"), Bool(FALSE), Num(2)) }

StoredArrays ==
    UNION { [1..n -> StoredElements] : n \in 0..MaxTasks }

StoredValues ==
    { Absent, Stored("empty", <<>>), Stored("unparseable", <<>>),
      Stored("nonArray", <<>>) }
    \cup { Stored("array", items) : items \in StoredArrays }

\* Another page of the same origin, or an earlier version of the
\* application, leaves the value s under the key.
storageWritten(s) ==
    /\ storage' = s
    /\ event' = Event("storageWritten", FALSE, FALSE)
    /\ UNCHANGED <<tasks, currentFilter, editingId, modalShown, storageFull,
                   view, clock, alertMsg, logged, uncaught>>

InitStored == \E s \in StoredValues : InitOn(s)

NextStored ==
    \/ reload
    \/ \E s \in StoredValues : storageWritten(s)

SpecStored == InitStored /\ [][NextStored]_vars

\* ------------------------------------------------- a store that is full
\* The origin's quota is used up (or storage is disabled): from now on
\* localStorage.setItem throws.
quotaExceeded ==
    /\ ~storageFull
    /\ storageFull' = TRUE
    /\ event' = Event("quotaExceeded", FALSE, FALSE)
    /\ UNCHANGED <<tasks, currentFilter, editingId, modalShown, storage,
                   view, clock, alertMsg, logged, uncaught>>

\* What is typed while the store is full: nothing, and a text with white
\* space around it.
FullTexts == { "", " a b\t" }

NextFull ==
    \/ quotaExceeded
    \/ \E value \in FullTexts, now \in 1..MaxClock : addTask(value, now)
    \/ \E id \in IdArgs : deleteTask(id, TRUE)
    \/ \E id \in IdArgs : toggleTask(id)
    \/ \E id \in IdArgs : editTask(id)
    \/ \E newText \in FullTexts : saveEdit(newText)
    \/ closeEditModal
    \/ clearCompleted(TRUE)
    \/ clearAll(TRUE)
    \/ \E filter \in {"all", "completed"} : setFilter(filter)
    \/ reload

SpecFull == Init /\ [][NextFull]_vars

\* ============================================================== properties
\* What trimming an input must give, stated without trim: the part of value
\* between a run of white space at its start and one at its end, itself
\* neither starting nor ending with white space.
IsTrimOf(t, value) ==
    \E i \in 0..Len(value), j \in 0..Len(value) :
        /\ i + j <= Len(value)
        /\ t = SubSeq(value, i + 1, Len(value) - j)
        /\ \A k \in 1..i : CharAt(value, k) \in WhiteSpace
        /\ \A k \in (Len(value) - j + 1)..Len(value) : CharAt(value, k) \in WhiteSpace
        /\ \/ t = ""
           \/ /\ CharAt(t, 1) \notin WhiteSpace
              /\ CharAt(t, Len(t)) \notin WhiteSpace

TrimmedText ==
    [value \in InputTexts |->
        CHOOSE t \in { SubSeq(value, i, j) :
                          i \in 1..(Len(value) + 1), j \in 0..Len(value) } :
            IsTrimOf(t, value)]

\* C1: addTask on an input whose trimmed text is non-empty and at most 100
\* characters long makes the collection one longer, the new task last, with
\* the trimmed text and completed = false, and leaves the tasks that were
\* there as they were.
C1_AddAppends ==
    [][\A value \in InputTexts, now \in 1..MaxClock :
          ( /\ addTask(value, now)
            /\ TrimmedText[value] # ""
            /\ Len(TrimmedText[value]) <= 100 )
          => /\ Len(tasks') = Len(tasks) + 1
             /\ SubSeq(tasks', 1, Len(tasks)) = tasks
             /\ tasks'[Len(tasks')].text = Str(TrimmedText[value])
             /\ tasks'[Len(tasks')].completed = FALSE]_vars

\* A second task was added, after a first that has since been completed:
\* its text is the input " a b\t" trimmed.
C1_Witness ==
    /\ event.op = "addTask" /\ alertMsg = ""
    /\ Len(tasks) = 2
    /\ tasks[1].completed
    /\ tasks[2] = Task(Num(2), Str("a b"), FALSE, Date(2))

\* C2: the ids of the tasks in the collection are pairwise distinct.
C2_IdsDistinct ==
    \A i, j \in 1..Len(tasks) : i # j => tasks[i].id # tasks[j].id

\* C3: addTask on an input that is empty or all white space leaves the
\* collection and the stored snapshot as they were and raises the alert of
\* the empty input.
C3_EmptyRejected ==
    [][\A value \in InputTexts, now \in 1..MaxClock :
          (addTask(value, now) /\ TrimmedText[value] = "")
          => /\ tasks' = tasks
             /\ storage' = storage
             /\ alertMsg' = AlertEmpty]_vars

\* The alert of the empty input was raised over a collection that holds a
\* task, whose snapshot is stored.
C3_Witness ==
    /\ event.op = "addTask" /\ alertMsg = AlertEmpty
    /\ Len(tasks) = 1
    /\ storage = JSONstringify(tasks)

\* C4: addTask on an input whose trimmed text is longer than 100 characters
\* leaves the collection and the stored snapshot as they were and raises the
\* alert of the long input; a trimmed text of exactly 100 characters is
\* taken, one of 101 is not.
C4_TooLongRejected ==
    [][\A value \in InputTexts, now \in 1..MaxClock :
          addTask(value, now)
          => /\ Len(TrimmedText[value]) > 100
                => /\ tasks' = tasks
                   /\ storage' = storage
                   /\ alertMsg' = AlertTooLong
             /\ Len(TrimmedText[value]) = 100
                => /\ Len(tasks') = Len(tasks) + 1
                   /\ Len(tasks'[Len(tasks')].text.str) = 100
                   /\ alertMsg' = ""]_vars

\* The alert of the long input was raised (the only such input has 101
\* characters) over a collection holding a task of 100 characters.
C4_Witness ==
    /\ event.op = "addTask" /\ alertMsg = AlertTooLong
    /\ \E value \in InputTexts : Len(TrimmedText[value]) = 101
    /\ \E i \in 1..Len(tasks) : Len(tasks[i].text.str) = 100

\* C5: every task in the collection has a text that is trimmed, non-empty
\* and between 1 and 100 characters long.
C5_TextWellFormed ==
    \A i \in 1..Len(tasks) :
        /\ tasks[i].text.type = "string"
        /\ Len(tasks[i].text.str) \in 1..100
        /\ IsTrimOf(tasks[i].text.str, tasks[i].text.str)

\* C6: toggleTask(id) called a second time brings the collection back to
\* what it was before the first call, and toggleTask on an id that no task
\* has changes nothing.
C6_DoubleToggle ==
    [][\A id \in IdArgs :
          toggleTask(id)
          => /\ Toggled(tasks', id) = tasks
             /\ (\E i \in 1..Len(tasks) : tasks[i].id = id)
                \/ UNCHANGED <<tasks, storage, view>>]_vars

\* A toggle has just acted on a task that is in the collection, and one
\* task is completed while another is not.
C6_Witness ==
    /\ event.op = "toggleTask" /\ event.found
    /\ Len(tasks) = 2
    /\ tasks[1].completed /\ ~tasks[2].completed

\* C7: after a confirmed deleteTask(id) no task has that id, and a confirmed
\* deleteTask on an id that no task has changes no task and raises no
\* error; so the second of two confirmed deleteTask(id) changes nothing.
C7_DeleteAgain ==
    [][\A id \in IdArgs :
          deleteTask(id, TRUE)
          => /\ \A i \in 1..Len(tasks') : tasks'[i].id # id
             /\ (\E i \in 1..Len(tasks) : tasks[i].id = id)
                \/ (tasks' = tasks /\ ~uncaught')]_vars

\* A confirmed delete has just been called with an id that no task had,
\* over a collection that holds tasks.
C7_Witness ==
    /\ event.op = "deleteTask" /\ event.answer /\ ~event.found
    /\ ~uncaught
    /\ Len(tasks) = 2

\* C8: saving the collection and loading it on a fresh start gives the same
\* tasks in the same order: same id, text, completed flag and creation time.
C8_RoundTrip ==
    LET loaded == loadTasks(saveTasks(tasks, storage, TRUE), <<>>) IN
    /\ Len(loaded.tasks) = Len(tasks)
    /\ \A i \in 1..Len(tasks) :
          /\ loaded.tasks[i].id = tasks[i].id
          /\ loaded.tasks[i].text = tasks[i].text
          /\ loaded.tasks[i].completed = tasks[i].completed
          /\ loaded.tasks[i].createdAt = tasks[i].createdAt

\* The page was reloaded on a saved collection of two tasks created at
\* different times, one of them completed.
C8_Witness ==
    /\ event.op = "reload"
    /\ storage = JSONstringify(tasks)
    /\ Len(tasks) = 2
    /\ tasks[1].completed /\ ~tasks[2].completed
    /\ tasks[1].createdAt # tasks[2].createdAt

\* The tasks of ts that satisfy keep, in the order they have in ts.
IsSelection(sub, ts, keep(_)) ==
    LET kept == {i \in 1..Len(ts) : keep(ts[i])} IN
    /\ Len(sub) = Cardinality(kept)
    /\ \A k \in 1..Len(sub) :
          \E i \in kept :
             /\ Cardinality({j \in kept : j < i}) = k - 1
             /\ sub[k] = ts[i]

\* C9: the filtered list is, under 'active', the tasks that are not
\* completed, under 'completed' those that are, under 'all' the whole
\* collection, each in the order of the collection; every task is in
\* exactly one of the first two.
C9_FilteredViews ==
    LET active == getFilteredTasks(tasks, "active")
        completed == getFilteredTasks(tasks, "completed")
        NotDone(t) == t.completed = FALSE
        Done(t) == t.completed = TRUE
        In(sub, t) == \E k \in 1..Len(sub) : sub[k] = t
    IN
    /\ IsSelection(active, tasks, NotDone)
    /\ IsSelection(completed, tasks, Done)
    /\ getFilteredTasks(tasks, "all") = tasks
    /\ \A i \in 1..Len(tasks) : In(active, tasks[i]) # In(completed, tasks[i])
    /\ Len(active) + Len(completed) = Len(tasks)

\* Two tasks, the first completed and the second not, shown under the
\* filter 'completed': the list on the page holds the first alone.
C9_Witness ==
    /\ event.op = "setFilter" /\ currentFilter = "completed"
    /\ Len(tasks) = 2
    /\ tasks[1].completed /\ ~tasks[2].completed
    /\ view.list = <<tasks[1]>>

\* A stored element that is a task record: an object with a number for id,
\* a string for text, a boolean for completed, a string or a number for
\* createdAt.
IsTaskRecord(e) ==
    /\ e.kind = "object"
    /\ e.id.type = "number"
    /\ e.text.type = "string"
    /\ e.completed.type = "boolean"
    /\ e.createdAt.type \in {"string", "number"}

IsMalformed(stored) ==
    \/ stored.kind \in {"unparseable", "nonArray"}
    \/ /\ stored.kind = "array"
       /\ \E i \in 1..Len(stored.items) : ~IsTaskRecord(stored.items[i])

\* C10: loading lets no error escape; with nothing stored (or the empty
\* string) the collection is empty, and with a stored value that is not
\* JSON, or is JSON but not an array of task records, the collection is
\* empty and the error has been logged.
C10_LoadFallsBack ==
    event.op \in {"init", "reload"}
    => /\ ~uncaught
       /\ storage.kind \in {"absent", "empty"} => tasks = <<>>
       /\ IsMalformed(storage) => (tasks = <<>> /\ logged)

\* C11: when the confirmation prompt is answered no, deleteTask,
\* clearCompleted and clearAll each leave the task collection, the current
\* filter, the persisted snapshot and the displayed view as they were.
C11_DeclinedChangesNothing ==
    [][(\/ \E id \in IdArgs : deleteTask(id, FALSE)
        \/ clearCompleted(FALSE)
        \/ clearAll(FALSE))
       => UNCHANGED <<tasks, currentFilter, storage, view>>]_vars

\* A declined deleteTask on a task of a collection that also holds a
\* completed task, so that a confirmed call of any of the three would have
\* changed it.
C11_Witness ==
    /\ event.op = "deleteTask" /\ ~event.answer /\ event.found
    /\ Len(tasks) = 2
    /\ tasks[1].completed
    /\ storage = JSONstringify(tasks)

\* The step let no error escape and ended with the view rendered from the
\* collection in memory.
Swallowed ==
    /\ ~uncaught'
    /\ view' = render(tasks', currentFilter')

\* C12: when the write to storage fails during a mutating operation (add,
\* confirmed delete, toggle, edit-save, confirmed clearCompleted, confirmed
\* clearAll), no error escapes the operation, the change made in memory is
\* kept, and the operation completes its remaining steps: the view is
\* rendered from the collection in memory and, for an edit-save, the modal
\* is closed.
C12_WriteFailureSwallowed ==
    [][storageFull
       => /\ \A value \in FullTexts, now \in 1..MaxClock :
                addTask(value, now) /\ alertMsg' = ""
                => Len(tasks') = Len(tasks) + 1 /\ Swallowed
          /\ \A id \in IdArgs :
                deleteTask(id, TRUE)
                => ~HasId(tasks', id) /\ Swallowed
          /\ \A id \in IdArgs :
                toggleTask(id) /\ HasId(tasks, id)
                => tasks' # tasks /\ Swallowed
          /\ \A newText \in FullTexts :
                saveEdit(newText) /\ alertMsg' = "" /\ HasId(tasks, editingId)
                => /\ tasks'[find(tasks, editingId)].text = Str(TrimmedText[newText])
                   /\ ~modalShown' /\ editingId' = null
                   /\ Swallowed
          /\ clearCompleted(TRUE)
                => (\A i \in 1..Len(tasks') : ~tasks'[i].completed) /\ Swallowed
          /\ clearAll(TRUE)
                => tasks' = <<>> /\ Swallowed]_vars

\* C13: from Editing(id), a save whose trimmed text is not empty ends in
\* Idle (modal closed, no editing reference); if a task with that id is in
\* the collection its text becomes the trimmed text and no other task
\* changes, and if no such task is in the collection no task changes.
C13_SaveEndsIdle ==
    [][\A newText \in InputTexts :
          saveEdit(newText) /\ TrimmedText[newText] # ""
          => /\ ~modalShown'
             /\ editingId' = null
             /\ IF \E i \in 1..Len(tasks) : tasks[i].id = editingId
                THEN \E i \in 1..Len(tasks) :
                        /\ tasks[i].id = editingId
                        /\ tasks' = [tasks EXCEPT
                                        ![i].text = Str(TrimmedText[newText])]
                ELSE tasks' = tasks]_vars

\* C14: from Editing(id), a save whose text is empty or only white space
\* surfaces a validation error and changes nothing: the edit flow stays in
\* Editing(id) with the same id, and the task collection and the persisted
\* snapshot are unchanged.
C14_EmptySaveRejected ==
    [][\A newText \in InputTexts :
          saveEdit(newText) /\ TrimmedText[newText] = ""
          => /\ alertMsg' = AlertEditEmpty
             /\ modalShown' /\ editingId' = editingId
             /\ UNCHANGED <<tasks, storage>>]_vars

\* A save of white space has just been rejected while the task being edited
\* is in the collection: the modal is still open on it.
C14_Witness ==
    /\ event.op = "saveEdit" /\ event.found
    /\ alertMsg = AlertEditEmpty
    /\ modalShown
    /\ \E i \in 1..Len(tasks) : tasks[i].id = editingId

\* The states of the edit flow: no modal and no editing reference, or the
\* modal shown for the task of one id.
Idle == ~modalShown /\ editingId = null

Editing(id) == modalShown /\ editingId = id

\* C15: the edit flow starts in Idle; from Editing(id), cancel or a click
\* outside the modal returns it to Idle and leaves the task collection, the
\* current filter and the persisted snapshot unchanged; and only an edit
\* request for an id present in the collection moves it from Idle to
\* Editing(id).
C15_CancelAndOpen ==
    /\ Idle
    /\ [][/\ closeEditModal
             => /\ \E id \in IdArgs : Editing(id)
                /\ Idle'
                /\ UNCHANGED <<tasks, currentFilter, storage>>
          /\ Idle /\ ~Idle'
             => \E id \in IdArgs :
                   /\ editTask(id)
                   /\ \E i \in 1..Len(tasks) : tasks[i].id = id
                   /\ Editing(id)']_vars

\* The modal, opened for a task, has just been cancelled, with two tasks in
\* a collection that has been saved.
C15_Witness ==
    /\ event.op = "closeEditModal"
    /\ Idle
    /\ Len(tasks) = 2
    /\ storage = JSONstringify(tasks)
    /\ currentFilter = "completed"

\* C16: setFilter with any value other than 'active' or 'completed', an
\* unrecognized one included, makes the filtered task list (and the list on
\* display) equal to the full collection, exactly as under 'all'; setFilter
\* never changes the task collection or the persisted snapshot.
C16_SetFilterFallsBack ==
    [][\A filter \in Filters :
          setFilter(filter)
          => /\ UNCHANGED <<tasks, storage>>
             /\ filter \notin {"active", "completed"}
                => /\ getFilteredTasks(tasks', currentFilter') = tasks'
                   /\ getFilteredTasks(tasks', currentFilter')
                        = getFilteredTasks(tasks', "all")
                   /\ view'.list = tasks']_vars

\* The unrecognized filter has just been set on a collection of a completed
\* and an active task, and both are listed.
C16_Witness ==
    /\ event.op = "setFilter"
    /\ currentFilter = "archived"
    /\ Len(tasks) = 2
    /\ tasks[1].completed /\ ~tasks[2].completed
    /\ view.list = tasks

\* The last event was a mutating operation that ran to its end: an accepted
\* add, a confirmed delete, a toggle or an edit-save of a task that was
\* found, a confirmed clearCompleted or clearAll.
Mutated ==
    \/ event.op = "addTask" /\ alertMsg = ""
    \/ event.op \in {"deleteTask", "clearCompleted", "clearAll"} /\ event.answer
    \/ event.op = "toggleTask" /\ event.found
    \/ event.op = "saveEdit" /\ event.found /\ alertMsg = ""

\* C17: with a working store, after every completed mutating operation the
\* persisted snapshot is the serialization of the collection in memory, and
\* between any two user events loading the snapshot gives exactly the
\* current collection.
C17_SnapshotCurrent ==
    /\ Mutated => storage = JSONstringify(tasks)
    /\ LET loaded == loadTasks(storage, <<>>) IN
       /\ loaded.tasks = tasks
       /\ ~loaded.logged /\ ~loaded.escaped

\* An edit has just been saved in a collection of two tasks, the first
\* completed, and the snapshot holds both.
C17_Witness ==
    /\ event.op = "saveEdit" /\ event.found /\ alertMsg = ""
    /\ Len(tasks) = 2
    /\ tasks[1].completed
    /\ tasks[1].text # tasks[2].text
    /\ storage.kind = "array" /\ Len(storage.items) = 2

\* C18: after initialization and after every user event that ran to its
\* end, the page shows the projection of the state: the list on display is
\* the filtered task list for the current filter, the empty-state indicator
\* is shown exactly when that list has no element (even if the collection
\* has some), and the counters are total = size of the collection,
\* completed = number of completed tasks, active = total - completed.
C18_ViewIsProjection ==
    ~uncaught
    => LET Shown(t) ==
               CASE currentFilter = "active" -> t.completed = FALSE
                 [] currentFilter = "completed" -> t.completed = TRUE
                 [] OTHER -> TRUE
           done == {i \in 1..Len(tasks) : tasks[i].completed}
       IN
       /\ IsSelection(view.list, tasks, Shown)
       /\ view.emptyState = (Len(view.list) = 0)
       /\ view.stats.total = Len(tasks)
       /\ view.stats.completed = Cardinality(done)
       /\ view.stats.active = Len(tasks) - Cardinality(done)

\* C19: a confirmed deleteTask(id) on an id present in the collection
\* removes exactly one task, the one with that id: the size of the
\* collection goes down by exactly 1, and every other task remains,
\* unchanged and in the same relative order.
C19_DeleteRemovesOne ==
    [][\A id \in IdArgs :
          deleteTask(id, TRUE) /\ (\E i \in 1..Len(tasks) : tasks[i].id = id)
          => /\ Len(tasks') = Len(tasks) - 1
             /\ \E i \in 1..Len(tasks) :
                   /\ tasks[i].id = id
                   /\ tasks' = SubSeq(tasks, 1, i - 1)
                                  \o SubSeq(tasks, i + 1, Len(tasks))]_vars

\* C20: in every reachable state at most one task is being edited, and
\* whenever the edit flow is in Editing(id) a task with that id is in the
\* collection: no delete, clearCompleted, clearAll or edit request made
\* while the modal is open leaves the editing reference on a task that is
\* no longer there.
C20_EditingTaskExists ==
    /\ Idle \/ \E id \in IdArgs : Editing(id)
    /\ \A id \in IdArgs :
          Editing(id) => \E i \in 1..Len(tasks) : tasks[i].id = id

====
